---- MODULE Spec2Model ----
(***************************************************************************)
(* USB Audio Class 2.0 function (src/src/lib.rs): StreamConfig packet      *)
(* sizing, AudioClassBuilder::build, the descriptor set written by         *)
(* get_configuration_descriptors, the control_in / control_out handlers    *)
(* and the read / write / alt-setting accessors of AudioClass.             *)
(*                                                                         *)
(* Option<T> is modelled as a sequence: None is <<>>, Some(x) is <<x>>.    *)
(* Result<T> is a record [ok, val, err].                                   *)
(***************************************************************************)
EXTENDS Integers, Sequences, FiniteSets, TLC

VARIABLES
    pc,               \* "builder" | "built" | "panicked" | "packet"
    builder,          \* AudioClassBuilder { input, output }
    allocator,        \* UsbBusAllocator as seen by build()
    ac,               \* AudioClass { control_interface, input, output, clock_index }
    writer,           \* DescriptorWriter after the last get_configuration_descriptors
    last,             \* the last call made on the AudioClass and what it produced
    n_get_range,      \* history: number of clock GET_RANGE requests answered so far
    ps                \* packet_size() evaluation: [cfg, done, panicked, value]

vars == <<pc, builder, allocator, ac, writer, last, n_get_range, ps>>

None == <<>>
Some(x) == <<x>>
IsSome(o) == o # <<>>
Unwrap(o) == o[1]

Ok(v) == [ok |-> TRUE, val |-> v, err |-> "none", inner |-> "none"]
Err(e) == [ok |-> FALSE, val |-> 0, err |-> e, inner |-> "none"]

U8 == 256
U16 == 65536

----------------------------------------------------------------------------
(* Constants, lib.rs 41-47 *)
ID_CLOCK_SRC == 1
ID_INPUT_TERMINAL == 2
ID_INPUT_STREAMING == 3
ID_OUTPUT_TERMINAL == 5
ID_OUTPUT_STREAMING == 4

(* usb_device::device::DEFAULT_ALTERNATE_SETTING, imported at lib.rs 15 *)
DEFAULT_ALTERNATE_SETTING == 0

(* usb_device::control::Request codes used at lib.rs 454 and 522 *)
GET_INTERFACE == 10
SET_INTERFACE == 11

(* Class request codes compared at lib.rs 482 and 505 *)
REQ_RANGE == 2
REQ_CUR == 1

(* usb_device::descriptor::descriptor_type::INTERFACE, imported at lib.rs 33 *)
INTERFACE == 4

(* class_codes.rs (mod class_codes, lib.rs 27): UAC2 code values *)
AUDIO == 1
AUDIOCONTROL == 1
AUDIOSTREAMING == 2
IP_VERSION_02_00 == 32
IP_UNDEFINED == 0
AUDIO_FUNCTION == 1
FUNCTION_SUBCLASS_UNDEFINED == 0
AF_VERSION_02_00 == 32
CS_INTERFACE == 36
CS_ENDPOINT == 37
HEADER == 1
INPUT_TERMINAL == 2
OUTPUT_TERMINAL == 3
AS_GENERAL == 1
FORMAT_TYPE == 2
FORMAT_TYPE_I == 1
EP_GENERAL == 1

(* terminal_type.rs (mod terminal_type, lib.rs 28): 2-byte wire code *)
TerminalTypes == {"UsbStreaming", "Microphone", "Speaker"}
TerminalType_as_bytes(t) ==
    CASE t = "UsbStreaming" -> <<1, 1>>
      [] t = "Microphone"   -> <<1, 2>>
      [] t = "Speaker"      -> <<1, 3>>

----------------------------------------------------------------------------
(* Format, lib.rs 63-84 *)
Formats == {"S16LE", "S24LE"}

Format_size(f) == IF f = "S16LE" THEN 2 ELSE 3

Format_res(f) == IF f = "S16LE" THEN 16 ELSE 24

(* StreamConfig::new, lib.rs 96-106: no validation, always Ok *)
StreamConfig_new(format, rate, n_channels, term_type) ==
    Ok([format |-> format, rate |-> rate, n_channels |-> n_channels,
        term_type |-> term_type])

(* StreamConfig::packet_size, lib.rs 108-117.  `size` is u8 arithmetic,    *)
(* the product is u16 arithmetic; an overflowing operation panics when     *)
(* overflow checks are compiled in and wraps otherwise.                    *)
frame_size_exact(cfg) == Format_size(cfg.format) * cfg.n_channels

frame_size(cfg) == frame_size_exact(cfg) % U8

samples_per_ms(cfg) == cfg.rate \div 1000

packet_size_exact(cfg) == (samples_per_ms(cfg) + 1) * frame_size(cfg)

packet_size_overflows(cfg) ==
    \/ frame_size_exact(cfg) >= U8
    \/ samples_per_ms(cfg) + 1 >= U16
    \/ packet_size_exact(cfg) >= U16

packet_size(cfg) == packet_size_exact(cfg) % U16

----------------------------------------------------------------------------
(* UsbBusAllocator as build() uses it (lib.rs 588, 596-606, 620-630).       *)
(* interface() hands out the next interface number; alloc() hands out the  *)
(* next endpoint or fails when the bus has none left.  `log` records the   *)
(* calls in order.                                                         *)
(* EndpointType::Isochronous { synchronization, usage } *)
Isochronous(synchronization, usage) ==
    [kind |-> "Isochronous", synchronization |-> synchronization, usage |-> usage]

NoEndpointType == [kind |-> "none", synchronization |-> "none", usage |-> "none"]

NoEndpoint ==
    [address |-> 0, ep_type |-> NoEndpointType, max_packet_size |-> 0, interval |-> 0]

allocator_interface(al) ==
    [number |-> al.next_interface,
     al |-> [al EXCEPT !.next_interface = @ + 1,
                       !.log = Append(@, [call |-> "interface", number |-> al.next_interface,
                                          ep_type |-> NoEndpointType, size |-> 0,
                                          ok |-> TRUE])]]

allocator_alloc(al, dir, ep_type, size, interval) ==
    IF al.free_endpoints = 0
    THEN [res |-> Err("EndpointOverflow"), ep |-> NoEndpoint,
          al |-> [al EXCEPT !.log = Append(@, [call |-> "alloc", number |-> 0,
                                               ep_type |-> ep_type, size |-> size,
                                               ok |-> FALSE])]]
    ELSE [res |-> Ok(0),
          ep |-> [address |-> (IF dir = "In" THEN 128 ELSE 0) + al.next_ep,
                  ep_type |-> ep_type, max_packet_size |-> size, interval |-> interval],
          al |-> [al EXCEPT !.free_endpoints = @ - 1,
                            !.next_ep = @ + 1,
                            !.log = Append(@, [call |-> "alloc", number |-> al.next_ep,
                                               ep_type |-> ep_type, size |-> size,
                                               ok |-> TRUE])]]

(* AudioClassBuilder, lib.rs 553-583 *)
AudioClassBuilder_new == [input |-> None, output |-> None]

AudioClassBuilder_input(b, cfg) == [input |-> Some(cfg), output |-> b.output]

AudioClassBuilder_output(b, cfg) == [input |-> b.input, output |-> Some(cfg)]

(* AudioClassBuilder::build, lib.rs 585-643.  The result is                *)
(* [panicked, ac, al]: an unwrap() of a failed alloc, or an overflow in    *)
(* packet_size() with overflow checks on, panics.                          *)
build_control(al) ==
    LET i == allocator_interface(al)
    IN  [panicked |-> FALSE,
         ac |-> [control_interface |-> i.number, input |-> None, output |-> None,
                 clock_index |-> 0],
         al |-> i.al]

build_stream(s, cfg_opt, dir, ep_type, checks) ==
    IF s.panicked \/ ~IsSome(cfg_opt) THEN s
    ELSE LET cfg == Unwrap(cfg_opt)
             i   == allocator_interface(s.al)
         IN  IF checks /\ packet_size_overflows(cfg)
             THEN [s EXCEPT !.panicked = TRUE, !.al = i.al]
             ELSE LET a == allocator_alloc(i.al, dir, ep_type, packet_size(cfg), 1)
                      stream == [stream_config |-> cfg, interface |-> i.number,
                                 endpoint |-> a.ep,
                                 alt_setting |-> DEFAULT_ALTERNATE_SETTING]
                  IN  IF ~a.res.ok
                      THEN [s EXCEPT !.panicked = TRUE, !.al = a.al]
                      ELSE [panicked |-> FALSE,
                            ac |-> IF dir = "In"
                                   THEN [s.ac EXCEPT !.input = Some(stream)]
                                   ELSE [s.ac EXCEPT !.output = Some(stream)],
                            al |-> a.al]

build_input(s, b, checks) ==
    build_stream(s, b.input, "In",
                 Isochronous("Asynchronous", "ImplicitFeedbackData"), checks)

build_output(s, b, checks) ==
    build_stream(s, b.output, "Out", Isochronous("Asynchronous", "Data"), checks)

(* build() allocating for the output direction before the input direction *)
build_output_first(b, al, checks) ==
    build_input(build_output(build_control(al), b, checks), b, checks)

build(b, al, checks) ==
    build_output(build_input(build_control(al), b, checks), b, checks)

----------------------------------------------------------------------------
(* DescriptorWriter as get_configuration_descriptors uses it.  write()     *)
(* appends a descriptor of 2 + Len(data) bytes, or fails with              *)
(* BufferOverflow when it does not fit.  A failed write whose result is    *)
(* unwrap()ed panics; one whose result is discarded is counted in          *)
(* `dropped`.  `kind` names the call that wrote the descriptor.            *)
NewWriter(cap) ==
    [buf |-> <<>>, position |-> 0, cap |-> cap, panicked |-> FALSE, dropped |-> 0]

writer_fits(w, data) ==
    /\ w.position + 2 + Len(data) <= w.cap
    /\ Len(data) + 2 <= 255

writer_append(w, kind, dtype, data) ==
    [w EXCEPT !.buf = Append(@, [kind |-> kind, dtype |-> dtype, data |-> data]),
              !.position = @ + 2 + Len(data)]

write_unwrap(w, kind, dtype, data) ==
    IF w.panicked THEN w
    ELSE IF writer_fits(w, data) THEN writer_append(w, kind, dtype, data)
    ELSE [w EXCEPT !.panicked = TRUE]

write_unchecked(w, kind, dtype, data) ==
    IF w.panicked THEN w
    ELSE IF writer_fits(w, data) THEN writer_append(w, kind, dtype, data)
    ELSE [w EXCEPT !.dropped = @ + 1]

(* writer.interface(number, class, sub_class, protocol): the standard      *)
(* interface descriptor of alternate setting 0 with no endpoints.          *)
writer_interface(w, kind, number, class, sub_class, protocol) ==
    write_unwrap(w, kind, INTERFACE,
                 <<number, DEFAULT_ALTERNATE_SETTING, 0, class, sub_class, protocol, 0>>)

(* the two bytes of a u16, low byte first *)
to_le_bytes(v) == <<v % 256, (v \div 256) % 256>>

to_be_bytes(v) == <<(v \div 256) % 256, v % 256>>

----------------------------------------------------------------------------
(* AudioStream descriptor construction, lib.rs 131-321 *)
input_ac_descriptor(stream, w) ==
    LET input_type  == TerminalType_as_bytes(stream.stream_config.term_type)
        output_type == TerminalType_as_bytes("UsbStreaming")
        w1 == write_unwrap(w, "InputTerminal.in", CS_INTERFACE,
                  <<INPUT_TERMINAL, ID_INPUT_TERMINAL, input_type[1], input_type[2],
                    0, ID_CLOCK_SRC, stream.stream_config.n_channels,
                    0, 0, 0, 0, 0, 0, 0, 0>>)
    IN  write_unwrap(w1, "OutputTerminal.in", CS_INTERFACE,
                  <<OUTPUT_TERMINAL, ID_INPUT_STREAMING, output_type[1], output_type[2],
                    0, ID_INPUT_TERMINAL, ID_CLOCK_SRC, 0, 0, 0>>)

output_ac_descriptor(stream, w) ==
    LET input_type  == TerminalType_as_bytes("UsbStreaming")
        output_type == TerminalType_as_bytes(stream.stream_config.term_type)
        w1 == write_unwrap(w, "InputTerminal.out", CS_INTERFACE,
                  <<INPUT_TERMINAL, ID_OUTPUT_STREAMING, input_type[1], input_type[2],
                    0, ID_CLOCK_SRC, stream.stream_config.n_channels,
                    0, 0, 0, 0, 0, 0, 0, 0>>)
    IN  write_unwrap(w1, "OutputTerminal.out", CS_INTERFACE,
                  <<OUTPUT_TERMINAL, ID_OUTPUT_TERMINAL, output_type[1], output_type[2],
                    0, ID_OUTPUT_STREAMING, ID_CLOCK_SRC, 0, 0, 0>>)

(* The AS block shared by both directions: `d` is "in" or "out", the      *)
(* arguments are what the two functions differ in.                         *)
as_ep_descriptor(stream, w, d, protocol0, link_id, bmAttributes) ==
    LET cfg == stream.stream_config
        max_transfer == to_be_bytes(packet_size(cfg))
        w1 == writer_interface(w, "AsInterface0." \o d, stream.interface,
                               AUDIO, AUDIOSTREAMING, protocol0)
        w2 == write_unwrap(w1, "AsInterface1." \o d, INTERFACE,
                  <<stream.interface, 1, 1, AUDIO, AUDIOSTREAMING, IP_VERSION_02_00, 0>>)
        w3 == write_unwrap(w2, "AsGeneral." \o d, CS_INTERFACE,
                  <<AS_GENERAL, link_id, 0, 1, 1, 0, 0, 0, cfg.n_channels,
                    0, 0, 0, 0, 0>>)
        w4 == write_unwrap(w3, "FormatType." \o d, CS_INTERFACE,
                  <<FORMAT_TYPE, FORMAT_TYPE_I, Format_size(cfg.format),
                    Format_res(cfg.format)>>)
        w5 == write_unwrap(w4, "Endpoint." \o d, 5,
                  <<stream.endpoint.address, bmAttributes, max_transfer[2],
                    max_transfer[1], stream.endpoint.interval>>)
    IN  write_unwrap(w5, "CsEndpoint." \o d, CS_ENDPOINT,
                  <<EP_GENERAL, 0, 0, 0, 0, 0>>)

input_as_ep_descriptor(stream, w) ==
    as_ep_descriptor(stream, w, "in", IP_VERSION_02_00, ID_INPUT_STREAMING, 37)

output_as_ep_descriptor(stream, w) ==
    as_ep_descriptor(stream, w, "out", IP_UNDEFINED, ID_OUTPUT_STREAMING, 5)

(* AudioClass::get_configuration_descriptors, lib.rs 379-445 *)
n_interfaces_of(a) ==
    ((IF IsSome(a.input) THEN 1 ELSE 0) + (IF IsSome(a.output) THEN 1 ELSE 0)) % U8

(* total length that does not count the streams *)
total_length_one_stream(a) == to_be_bytes((9 + 8 + 29) % U8)

total_length_of(a) == to_be_bytes((9 + 8 + (29 * n_interfaces_of(a))) % U8)

write_iad(a, w) ==
    write_unwrap(w, "IAD", 11,
        <<0, (n_interfaces_of(a) + 1) % U8, AUDIO_FUNCTION,
          FUNCTION_SUBCLASS_UNDEFINED, AF_VERSION_02_00, 0>>)

write_ac_interface(a, w) ==
    writer_interface(w, "AcInterface", a.control_interface,
                     AUDIO, AUDIOCONTROL, IP_VERSION_02_00)

write_ac_header(a, w) ==
    LET total_length == total_length_of(a)
    IN  write_unchecked(w, "AcHeader", CS_INTERFACE,
            <<HEADER, 0, 2, 0, total_length[2], total_length[1], 0>>)

(* the clock source descriptor with one byte too many *)
write_clock_source_long(a, w) ==
    write_unwrap(w, "ClockSource", CS_INTERFACE, <<10, ID_CLOCK_SRC, 1, 1, 0, 0, 0>>)

write_clock_source(a, w) ==
    write_unwrap(w, "ClockSource", CS_INTERFACE, <<10, ID_CLOCK_SRC, 1, 1, 0, 0>>)

write_input_ac(a, w) ==
    IF IsSome(a.input) /\ ~w.panicked THEN input_ac_descriptor(Unwrap(a.input), w) ELSE w

(* the output terminals written from the input stream's configuration *)
write_output_ac_of_input(a, w) ==
    IF IsSome(a.input) /\ ~w.panicked THEN output_ac_descriptor(Unwrap(a.input), w) ELSE w

write_output_ac(a, w) ==
    IF IsSome(a.output) /\ ~w.panicked THEN output_ac_descriptor(Unwrap(a.output), w) ELSE w

write_input_as(a, w) ==
    IF IsSome(a.input) /\ ~w.panicked THEN input_as_ep_descriptor(Unwrap(a.input), w) ELSE w

write_output_as(a, w) ==
    IF IsSome(a.output) /\ ~w.panicked THEN output_as_ep_descriptor(Unwrap(a.output), w) ELSE w

(* each stream's AS block written right after its AC terminals *)
get_configuration_descriptors_by_stream(a, w) ==
    write_output_as(a,
      write_output_ac(a,
        write_input_as(a,
          write_input_ac(a,
            write_clock_source(a,
              write_ac_header(a,
                write_ac_interface(a,
                  write_iad(a, w))))))))

get_configuration_descriptors(a, w) ==
    write_output_as(a,
      write_input_as(a,
        write_output_ac(a,
          write_input_ac(a,
            write_clock_source(a,
              write_ac_header(a,
                write_ac_interface(a,
                  write_iad(a, w))))))))

----------------------------------------------------------------------------
(* AudioClass data path and accessors, lib.rs 333-375.  The endpoint's own *)
(* read/write is the bus's: its outcome `ep_result` is an input.           *)
map_err_UsbError(r) ==
    IF r.ok THEN r ELSE [ok |-> FALSE, val |-> 0, err |-> "UsbError", inner |-> r.err]

(* read() forwarding to whichever stream exists *)
(* One call of the endpoint's read or write: which endpoint, which call,   *)
(* and what the endpoint answered.                                         *)
endpoint_call(op, endpoint, ep_result) ==
    [op |-> op, address |-> endpoint.address, result |-> ep_result]

read_any_stream(a, ep_result) ==
    IF IsSome(a.output)
    THEN [ret |-> map_err_UsbError(ep_result),
          ep |-> Some(endpoint_call("read", Unwrap(a.output).endpoint, ep_result))]
    ELSE IF IsSome(a.input)
    THEN [ret |-> map_err_UsbError(ep_result),
          ep |-> Some(endpoint_call("read", Unwrap(a.input).endpoint, ep_result))]
    ELSE [ret |-> Err("StreamNotInitialized"), ep |-> None]

read(a, ep_result) ==
    IF IsSome(a.output)
    THEN [ret |-> map_err_UsbError(ep_result),
          ep |-> Some(endpoint_call("read", Unwrap(a.output).endpoint, ep_result))]
    ELSE [ret |-> Err("StreamNotInitialized"), ep |-> None]

(* write() forwarding to the output stream's endpoint when there is one *)
write_to_output_endpoint(a, ep_result) ==
    IF IsSome(a.input)
    THEN [ret |-> map_err_UsbError(ep_result),
          ep |-> Some(endpoint_call("write",
                        IF IsSome(a.output) THEN Unwrap(a.output).endpoint
                        ELSE Unwrap(a.input).endpoint, ep_result))]
    ELSE [ret |-> Err("StreamNotInitialized"), ep |-> None]

write(a, ep_result) ==
    IF IsSome(a.input)
    THEN [ret |-> map_err_UsbError(ep_result),
          ep |-> Some(endpoint_call("write", Unwrap(a.input).endpoint, ep_result))]
    ELSE [ret |-> Err("StreamNotInitialized"), ep |-> None]

input_alt_setting(a) ==
    IF IsSome(a.input) THEN Ok(Unwrap(a.input).alt_setting)
    ELSE Err("StreamNotInitialized")

output_alt_setting(a) ==
    IF IsSome(a.output) THEN Ok(Unwrap(a.output).alt_setting)
    ELSE Err("StreamNotInitialized")

----------------------------------------------------------------------------
(* Control transfers, lib.rs 447-546.  A request is                        *)
(* [request_type, recipient, request, value, index, length]; the result    *)
(* is [ac, xfer, panicked] where xfer is None when the transfer was left   *)
(* unhandled and Some(data) when it was accepted with `data` (control_out  *)
(* accepts with no data).                                                  *)
RANGE_COUNT_ONLY == <<1, 0>>

RANGE_FULL == <<1, 0, 128, 62, 0, 0, 128, 62, 0, 0, 1, 0, 0, 0>>

CUR_FREQUENCY == <<128, 62, 0, 0>>

is_get_interface(req) ==
    /\ req.request_type = "Standard"
    /\ req.recipient = "Interface"
    /\ req.request = GET_INTERFACE
    /\ req.length = 1

is_clock_request(req) ==
    /\ req.request_type = "Class"
    /\ req.recipient = "Interface"
    /\ ((req.index % U16) \div 256) % U8 = ID_CLOCK_SRC
    /\ (req.value % U16) \div 256 = 1

(* GET_INTERFACE answering the default alternate setting for every stream *)
get_interface_default(a, req) ==
    LET interface == req.index % U8
    IN  IF IsSome(a.input) /\ interface = Unwrap(a.input).interface
        THEN [ac |-> a, xfer |-> Some(<<DEFAULT_ALTERNATE_SETTING>>), panicked |-> FALSE]
        ELSE IF IsSome(a.output) /\ interface = Unwrap(a.output).interface
        THEN [ac |-> a, xfer |-> Some(<<DEFAULT_ALTERNATE_SETTING>>), panicked |-> FALSE]
        ELSE [ac |-> a, xfer |-> None, panicked |-> FALSE]

get_interface(a, req) ==
    LET interface == req.index % U8
    IN  IF IsSome(a.input) /\ interface = Unwrap(a.input).interface
        THEN [ac |-> a, xfer |-> Some(<<Unwrap(a.input).alt_setting>>), panicked |-> FALSE]
        ELSE IF IsSome(a.output) /\ interface = Unwrap(a.output).interface
        THEN [ac |-> a, xfer |-> Some(<<Unwrap(a.output).alt_setting>>), panicked |-> FALSE]
        ELSE [ac |-> a, xfer |-> None, panicked |-> FALSE]

(* lib.rs 482-502: `self.clock_index += 1` is u8 arithmetic *)
get_range(a, checks) ==
    IF a.clock_index = 0
    THEN [ac |-> [a EXCEPT !.clock_index = 1], xfer |-> Some(RANGE_COUNT_ONLY),
          panicked |-> FALSE]
    ELSE IF a.clock_index + 1 >= U8 /\ checks
    THEN [ac |-> a, xfer |-> Some(RANGE_FULL), panicked |-> TRUE]
    ELSE [ac |-> [a EXCEPT !.clock_index = (@ + 1) % U8], xfer |-> Some(RANGE_FULL),
          panicked |-> FALSE]

(* GET_CUR moving the range cursor as GET_RANGE does *)
get_cur_advancing(a) ==
    [ac |-> [a EXCEPT !.clock_index = (@ + 1) % U8], xfer |-> Some(CUR_FREQUENCY),
     panicked |-> FALSE]

get_cur(a) == [ac |-> a, xfer |-> Some(CUR_FREQUENCY), panicked |-> FALSE]

control_in(a, req, checks) ==
    IF is_get_interface(req) THEN get_interface(a, req)
    ELSE IF is_clock_request(req)
    THEN IF req.request = REQ_RANGE THEN get_range(a, checks)
         ELSE IF req.request = REQ_CUR THEN get_cur(a)
         ELSE [ac |-> a, xfer |-> None, panicked |-> FALSE]
    ELSE [ac |-> a, xfer |-> None, panicked |-> FALSE]

(* SET_INTERFACE matched whatever its recipient *)
is_set_interface_any_recipient(req) ==
    /\ req.request_type = "Standard"
    /\ req.request = SET_INTERFACE

is_set_interface(req) ==
    /\ req.request_type = "Standard"
    /\ req.recipient = "Interface"
    /\ req.request = SET_INTERFACE

(* SET_INTERFACE storing the interface number where the value belongs *)
set_interface_stores_index(a, req) ==
    LET interface   == req.index % U8
        alt_setting == req.index % U8
    IN  IF IsSome(a.input) /\ interface = Unwrap(a.input).interface
        THEN [ac |-> [a EXCEPT !.input[1].alt_setting = alt_setting],
              xfer |-> Some(<<>>), panicked |-> FALSE]
        ELSE IF IsSome(a.output) /\ interface = Unwrap(a.output).interface
        THEN [ac |-> [a EXCEPT !.output[1].alt_setting = alt_setting],
              xfer |-> Some(<<>>), panicked |-> FALSE]
        ELSE [ac |-> a, xfer |-> None, panicked |-> FALSE]

set_interface(a, req) ==
    LET interface   == req.index % U8
        alt_setting == req.value % U8
    IN  IF IsSome(a.input) /\ interface = Unwrap(a.input).interface
        THEN [ac |-> [a EXCEPT !.input[1].alt_setting = alt_setting],
              xfer |-> Some(<<>>), panicked |-> FALSE]
        ELSE IF IsSome(a.output) /\ interface = Unwrap(a.output).interface
        THEN [ac |-> [a EXCEPT !.output[1].alt_setting = alt_setting],
              xfer |-> Some(<<>>), panicked |-> FALSE]
        ELSE [ac |-> a, xfer |-> None, panicked |-> FALSE]

control_out(a, req) ==
    IF is_set_interface(req) THEN set_interface(a, req)
    ELSE [ac |-> a, xfer |-> None, panicked |-> FALSE]

----------------------------------------------------------------------------
(* Bounds of the model *)
MaxFirstInterface == 1
MaxEndpoints == 2
MaxAltValue == 2
MaxIndexLow == 2
MaxRangeQueries == 1
MaxBufLen == 1
MaxWriterCap == 210

(* Inputs *)
ConfigA == StreamConfig_new("S16LE", 48000, 2, "Microphone").val

ConfigB == StreamConfig_new("S24LE", 44100, 2, "Speaker").val

InputConfigs == {ConfigA}

OutputConfigs == {ConfigB}

Allocator(i, e) ==
    [next_interface |-> i, free_endpoints |-> e, next_ep |-> 1, log |-> <<>>]

(* Allocators with an endpoint for every stream: other classes may have    *)
(* taken interface numbers before build().                                 *)
Allocators == {Allocator(i, MaxEndpoints) : i \in 0..MaxFirstInterface}

(* Allocators that may also run out of endpoints.                          *)
ScarceAllocators ==
    {Allocator(i, e) : i \in 0..MaxFirstInterface, e \in 0..MaxEndpoints}

Request(t, rc, rq, v, i, l) ==
    [request_type |-> t, recipient |-> rc, request |-> rq, value |-> v, index |-> i,
     length |-> l]

NoRequest == Request("none", "none", 0, 0, 0, 0)

RequestTypes == {"Standard", "Class"}

Recipients == {"Interface", "Device"}

Indexes == {h * 256 + l : h \in 0..1, l \in 0..MaxIndexLow}

(* Requests of (and next to) the shapes control_in recognizes:            *)
(* GET_INTERFACE with every index and length, clock-source class requests  *)
(* with every request code, selector and index, and both with the request  *)
(* type or the recipient changed.                                          *)
ControlInRequests ==
    {Request("Standard", "Interface", GET_INTERFACE, 0, i, l) :
        i \in Indexes, l \in {1, 2}}
    \cup {Request("Class", "Interface", rq, v, i, 4) :
        rq \in {REQ_CUR, REQ_RANGE, 3}, v \in {0, 256}, i \in {0, 256, 257}}
    \cup {Request(t, rc, rq, 256, 257, 1) :
        t \in RequestTypes, rc \in Recipients,
        rq \in {GET_INTERFACE, REQ_CUR, REQ_RANGE}}

(* Requests of (and next to) the shape control_out recognizes.             *)
ControlOutRequests ==
    {Request("Standard", "Interface", SET_INTERFACE, v, i, 0) :
        v \in (0..MaxAltValue) \cup {257}, i \in Indexes}
    \cup {Request(t, rc, rq, 1, i, 0) :
        t \in RequestTypes, rc \in Recipients,
        rq \in {GET_INTERFACE, SET_INTERFACE}, i \in {1, 2}}

ClockRequests ==
    {Request("Class", "Interface", rq, 256, i, l) :
        rq \in {REQ_CUR, REQ_RANGE}, i \in {256, 257}, l \in {2, 14}}

EndpointResults(len) ==
    {Ok(n) : n \in 0..len} \cup {Err("WouldBlock")}

Call(op, req, xfer, ret, ep) ==
    [op |-> op, req |-> req, xfer |-> xfer, ret |-> ret, ep |-> ep]

NoAudioClass == [control_interface |-> 0, input |-> None, output |-> None, clock_index |-> 0]

NoPacketSize ==
    [cfg |-> ConfigA, done |-> FALSE, panicked |-> FALSE, value |-> 0]

----------------------------------------------------------------------------
(* State machine *)
Init ==
    /\ pc = "builder"
    /\ builder = AudioClassBuilder_new
    /\ allocator \in Allocators
    /\ ac = NoAudioClass
    /\ writer = NewWriter(0)
    /\ last = Call("new", NoRequest, None, Ok(0), None)
    /\ n_get_range = 0
    /\ ps = NoPacketSize

BuilderInputWith(configs) ==
    /\ pc = "builder"
    /\ \E cfg \in configs : builder' = AudioClassBuilder_input(builder, cfg)
    /\ last' = Call("input", NoRequest, None, Ok(0), None)
    /\ UNCHANGED <<pc, allocator, ac, writer, n_get_range, ps>>

BuilderInput == BuilderInputWith(InputConfigs)

BuilderOutputWith(configs) ==
    /\ pc = "builder"
    /\ \E cfg \in configs : builder' = AudioClassBuilder_output(builder, cfg)
    /\ last' = Call("output", NoRequest, None, Ok(0), None)
    /\ UNCHANGED <<pc, allocator, ac, writer, n_get_range, ps>>

BuilderOutput == BuilderOutputWith(OutputConfigs)

Build ==
    /\ pc = "builder"
    /\ \E r \in {build(builder, allocator, checks) : checks \in BOOLEAN} :
             /\ pc' = IF r.panicked THEN "panicked" ELSE "built"
             /\ ac' = IF r.panicked THEN ac ELSE r.ac
             /\ allocator' = r.al
             /\ last' = Call("build", NoRequest, None,
                             IF r.panicked THEN Err("panic") ELSE Ok(0), None)
    /\ UNCHANGED <<builder, writer, n_get_range, ps>>

ControlInWith(requests, limit) ==
    /\ pc = "built"
    /\ \E req \in requests : \E r \in {control_in(ac, req, checks) : checks \in BOOLEAN} :
         LET range == is_clock_request(req) /\ req.request = REQ_RANGE
         IN  /\ range => n_get_range < limit
             /\ pc' = IF r.panicked THEN "panicked" ELSE "built"
             /\ ac' = r.ac
             /\ last' = Call("control_in", req, r.xfer, Ok(0), None)
             /\ n_get_range' = IF range THEN n_get_range + 1 ELSE n_get_range
    /\ UNCHANGED <<builder, allocator, writer, ps>>

ControlIn == ControlInWith(ControlInRequests, MaxRangeQueries)

ControlOut ==
    /\ pc = "built"
    /\ \E req \in ControlOutRequests :
         LET r == control_out(ac, req)
         IN  /\ ac' = r.ac
             /\ last' = Call("control_out", req, r.xfer, Ok(0), None)
    /\ UNCHANGED <<pc, builder, allocator, writer, n_get_range, ps>>

Read ==
    /\ pc = "built"
    /\ \E len \in 0..MaxBufLen : \E e \in EndpointResults(len) :
         LET r == read(ac, e)
         IN  last' = Call("read", NoRequest, None, r.ret, r.ep)
    /\ UNCHANGED <<pc, builder, allocator, ac, writer, n_get_range, ps>>

Write ==
    /\ pc = "built"
    /\ \E len \in 0..MaxBufLen : \E e \in EndpointResults(len) :
         LET r == write(ac, e)
         IN  last' = Call("write", NoRequest, None, r.ret, r.ep)
    /\ UNCHANGED <<pc, builder, allocator, ac, writer, n_get_range, ps>>

InputAltSetting ==
    /\ pc = "built"
    /\ last' = Call("input_alt_setting", NoRequest, None, input_alt_setting(ac), None)
    /\ UNCHANGED <<pc, builder, allocator, ac, writer, n_get_range, ps>>

OutputAltSetting ==
    /\ pc = "built"
    /\ last' = Call("output_alt_setting", NoRequest, None, output_alt_setting(ac), None)
    /\ UNCHANGED <<pc, builder, allocator, ac, writer, n_get_range, ps>>

GetConfigurationDescriptorsWith(caps) ==
    /\ pc = "built"
    /\ \E cap \in caps :
         LET w == get_configuration_descriptors(ac, NewWriter(cap))
         IN  /\ writer' = w
             /\ pc' = IF w.panicked THEN "panicked" ELSE "built"
             /\ last' = Call("get_configuration_descriptors", NoRequest, None,
                             IF w.panicked THEN Err("panic") ELSE Ok(0), None)
    /\ UNCHANGED <<builder, allocator, ac, n_get_range, ps>>

GetConfigurationDescriptors == GetConfigurationDescriptorsWith({MaxWriterCap})

Next ==
    \/ BuilderInput
    \/ BuilderOutput
    \/ Build
    \/ ControlIn
    \/ ControlOut
    \/ Read
    \/ Write
    \/ InputAltSetting
    \/ OutputAltSetting
    \/ GetConfigurationDescriptors

Spec == Init /\ [][Next]_vars

----------------------------------------------------------------------------
(* The clock-source requests alone, far enough for the 8-bit cursor of     *)
(* lib.rs 330 to run through its whole range.                              *)
ClockQueryLimit == U8 + 1

ClockControlIn == ControlInWith(ClockRequests, ClockQueryLimit)

NextClock ==
    \/ BuilderInput
    \/ BuilderOutput
    \/ Build
    \/ ClockControlIn

SpecClock == Init /\ [][NextClock]_vars

----------------------------------------------------------------------------
(* Descriptor emission into writers of every capacity up to MaxWriterCap.  *)
DescribeAnyCap == GetConfigurationDescriptorsWith(0..MaxWriterCap)

NextDesc ==
    \/ BuilderInput
    \/ BuilderOutput
    \/ Build
    \/ DescribeAnyCap

SpecDesc == Init /\ [][NextDesc]_vars

----------------------------------------------------------------------------
(* StreamConfig::packet_size as a function of its configuration.  The      *)
(* rates cover every value of rate / 1000 a u16 can give; the channel      *)
(* counts are every u8.                                                    *)
(* build() alone, against allocators that may have no endpoint left, with  *)
(* either configuration in either direction.                              *)
BuildConfigs == InputConfigs \cup OutputConfigs

InitBuild ==
    /\ pc = "builder"
    /\ builder = AudioClassBuilder_new
    /\ allocator \in ScarceAllocators
    /\ ac = NoAudioClass
    /\ writer = NewWriter(0)
    /\ last = Call("new", NoRequest, None, Ok(0), None)
    /\ n_get_range = 0
    /\ ps = NoPacketSize

BuilderInputAny == BuilderInputWith(BuildConfigs)

BuilderOutputAny == BuilderOutputWith(BuildConfigs)

NextBuild ==
    \/ BuilderInputAny
    \/ BuilderOutputAny
    \/ Build

SpecBuild == InitBuild /\ [][NextBuild]_vars

PacketRates ==
    {r \in {k * 1000 + d : k \in 0..65, d \in {0, 100, 999}} : r < U16}

PacketConfigs ==
    {StreamConfig_new(f, r, n, "Microphone").val :
        f \in Formats, r \in PacketRates, n \in 0..(U8 - 1)}

InitPacket ==
    /\ pc = "packet"
    /\ builder = AudioClassBuilder_new
    /\ allocator = Allocator(0, 0)
    /\ ac = NoAudioClass
    /\ writer = NewWriter(0)
    /\ last = Call("new", NoRequest, None, Ok(0), None)
    /\ n_get_range = 0
    /\ \E cfg \in PacketConfigs :
         ps = [cfg |-> cfg, done |-> FALSE, panicked |-> FALSE, value |-> 0]

PacketSize ==
    /\ pc = "packet"
    /\ ~ps.done
    /\ \E checks \in BOOLEAN :
         LET panics == checks /\ packet_size_overflows(ps.cfg)
         IN  ps' = [ps EXCEPT !.done = TRUE,
                              !.panicked = panics,
                              !.value = IF panics THEN 0 ELSE packet_size(ps.cfg)]
    /\ UNCHANGED <<pc, builder, allocator, ac, writer, last, n_get_range>>

NextPacket == PacketSize

SpecPacket == InitPacket /\ [][NextPacket]_vars

----------------------------------------------------------------------------
(* Properties *)

(* An AudioClass exists: build() returned one. *)
Built == pc = "built" \/ (pc = "panicked" /\ last.op # "build")

StandardInterfaceRequest(req, code) ==
    /\ req.request_type = "Standard"
    /\ req.recipient = "Interface"
    /\ req.request = code

InputInterface == Unwrap(ac.input).interface

OutputInterface == Unwrap(ac.output).interface

AltSettingAfterBuild ==
    (Built /\ last.op = "build") =>
        /\ IsSome(ac.input) => input_alt_setting(ac) = Ok(0)
        /\ IsSome(ac.output) => output_alt_setting(ac) = Ok(0)

(* C1 as stated: the accessors return 0 right after build(), and after a   *)
(* step they return the 16-bit wValue of the SET_INTERFACE whose wIndex is *)
(* the stream's interface number if the step delivered one, and what they  *)
(* returned before otherwise.                                              *)
C1_AltSettingIsLastWValue ==
    /\ []AltSettingAfterBuild
    /\ [][(Built /\ IsSome(ac.input)) =>
            IF /\ last'.op = "control_out"
               /\ StandardInterfaceRequest(last'.req, 11)
               /\ last'.req.index = InputInterface
            THEN input_alt_setting(ac') = Ok(last'.req.value)
            ELSE input_alt_setting(ac') = input_alt_setting(ac)]_vars
    /\ [][(Built /\ IsSome(ac.output)) =>
            IF /\ last'.op = "control_out"
               /\ StandardInterfaceRequest(last'.req, 11)
               /\ last'.req.index = OutputInterface
            THEN output_alt_setting(ac') = Ok(last'.req.value)
            ELSE output_alt_setting(ac') = output_alt_setting(ac)]_vars

(* C1, amended: the accessors return 0 right after build(); a step that    *)
(* delivers a standard SET_INTERFACE (recipient interface) whose wIndex    *)
(* low byte is the stream's interface number makes the accessor return the *)
(* low byte of its wValue, and every other step leaves what it returns     *)
(* unchanged.                                                              *)
C1_AltSettingIsLowByteOfLastWValue ==
    /\ []AltSettingAfterBuild
    /\ [][(Built /\ IsSome(ac.input)) =>
            IF /\ last'.op = "control_out"
               /\ StandardInterfaceRequest(last'.req, 11)
               /\ last'.req.index % 256 = InputInterface
            THEN input_alt_setting(ac') = Ok(last'.req.value % 256)
            ELSE input_alt_setting(ac') = input_alt_setting(ac)]_vars
    /\ [][(Built /\ IsSome(ac.output)) =>
            IF /\ last'.op = "control_out"
               /\ StandardInterfaceRequest(last'.req, 11)
               /\ last'.req.index % 256 = OutputInterface
            THEN output_alt_setting(ac') = Ok(last'.req.value % 256)
            ELSE output_alt_setting(ac') = output_alt_setting(ac)]_vars

(* A SET_INTERFACE with a wValue above 255 was accepted for the output     *)
(* stream, whose accessor now returns its low byte, while the input stream *)
(* holds another value set before it.                                      *)
C1_Witness ==
    /\ pc = "built"
    /\ IsSome(ac.input) /\ IsSome(ac.output)
    /\ last.op = "control_out"
    /\ last.req.value = 257
    /\ last.req.index % 256 = OutputInterface
    /\ last.xfer = Some(<<>>)
    /\ output_alt_setting(ac) = Ok(1)
    /\ input_alt_setting(ac) = Ok(2)

GetInterfaceShape(req) ==
    /\ StandardInterfaceRequest(req, 10)
    /\ req.length = 1

(* C2 as stated: a GET_INTERFACE (standard, recipient interface, length 1) *)
(* whose 16-bit wIndex is a configured stream's interface number is        *)
(* answered with the one byte alt_setting of that stream, and one whose    *)
(* wIndex is no configured stream's interface number gets no response.     *)
C2_GetInterfaceByWIndex ==
    (Built /\ last.op = "control_in" /\ GetInterfaceShape(last.req)) =>
        IF IsSome(ac.input) /\ last.req.index = InputInterface
        THEN last.xfer = Some(<<Unwrap(ac.input).alt_setting>>)
        ELSE IF IsSome(ac.output) /\ last.req.index = OutputInterface
        THEN last.xfer = Some(<<Unwrap(ac.output).alt_setting>>)
        ELSE last.xfer = None

(* C2, amended: the interface a GET_INTERFACE addresses is the low byte of *)
(* its wIndex: if that is a configured stream's interface number the reply *)
(* is the one byte alt_setting of that stream, and if it is none there is  *)
(* no response.                                                            *)
C2_GetInterfaceByWIndexLowByte ==
    (Built /\ last.op = "control_in" /\ GetInterfaceShape(last.req)) =>
        IF IsSome(ac.input) /\ last.req.index % 256 = InputInterface
        THEN last.xfer = Some(<<Unwrap(ac.input).alt_setting>>)
        ELSE IF IsSome(ac.output) /\ last.req.index % 256 = OutputInterface
        THEN last.xfer = Some(<<Unwrap(ac.output).alt_setting>>)
        ELSE last.xfer = None

(* A GET_INTERFACE with a non-zero wIndex high byte was answered with the  *)
(* non-default alt_setting of the stream its low byte names.               *)
C2_Witness ==
    /\ pc = "built"
    /\ last.op = "control_in"
    /\ GetInterfaceShape(last.req)
    /\ last.req.index >= 256
    /\ IsSome(ac.output)
    /\ last.req.index % 256 = OutputInterface
    /\ last.xfer = Some(<<1>>)

(* C3: once built, the alt_setting of every configured stream is 0 or 1.   *)
C3_AltSettingIsZeroOrOne ==
    Built =>
        /\ IsSome(ac.input) => Unwrap(ac.input).alt_setting \in {0, 1}
        /\ IsSome(ac.output) => Unwrap(ac.output).alt_setting \in {0, 1}

(* C4: the streams an AudioClass has are the directions its builder was    *)
(* given, in every state after build(); and read(), write() and the        *)
(* accessor of a direction the builder was not given fail with             *)
(* StreamNotInitialized and touch no endpoint.                             *)
C4_AbsentStreamStaysAbsent ==
    Built =>
        /\ IsSome(ac.input) <=> IsSome(builder.input)
        /\ IsSome(ac.output) <=> IsSome(builder.output)
        /\ (last.op = "read" /\ ~IsSome(builder.output)) =>
               last.ret = Err("StreamNotInitialized") /\ last.ep = None
        /\ (last.op = "write" /\ ~IsSome(builder.input)) =>
               last.ret = Err("StreamNotInitialized") /\ last.ep = None
        /\ (last.op = "input_alt_setting" /\ ~IsSome(builder.input)) =>
               last.ret = Err("StreamNotInitialized")
        /\ (last.op = "output_alt_setting" /\ ~IsSome(builder.output)) =>
               last.ret = Err("StreamNotInitialized")

(* read() failed on a class built with an input stream only, after control *)
(* transfers had changed that stream's alt_setting.                        *)
C4_Witness ==
    /\ pc = "built"
    /\ IsSome(builder.input) /\ ~IsSome(builder.output)
    /\ Unwrap(ac.input).alt_setting = 1
    /\ last.op = "read"
    /\ last.ret.err = "StreamNotInitialized"

ByteSize(f) == IF f = "S16LE" THEN 2 ELSE 3

(* C5: for both formats, every 16-bit rate and every channel count >= 1,   *)
(* packet_size() returns (floor(rate / 1000) + 1) * channel_count *        *)
(* byte_size.                                                              *)
C5_PacketSizeFormula ==
    (pc = "packet" /\ ps.done /\ ps.cfg.n_channels >= 1) =>
        /\ ~ps.panicked
        /\ ps.value = ((ps.cfg.rate \div 1000) + 1) * ps.cfg.n_channels
                          * ByteSize(ps.cfg.format)

(* C6: for every rate from 1000 up and every channel count >= 1,           *)
(* packet_size() is positive and a multiple of channel_count * byte_size.  *)
C6_PacketSizePositiveMultiple ==
    (pc = "packet" /\ ps.done /\ ps.cfg.n_channels >= 1 /\ ps.cfg.rate >= 1000) =>
        /\ ~ps.panicked
        /\ ps.value > 0
        /\ ps.value % (ps.cfg.n_channels * ByteSize(ps.cfg.format)) = 0

ClockRangeShape(req) ==
    /\ req.request_type = "Class"
    /\ req.recipient = "Interface"
    /\ req.index \div 256 = 1
    /\ req.value \div 256 = 1
    /\ req.request = 2

(* C7: the first clock GET_RANGE is answered with the 2-byte payload and   *)
(* every later one, however many there have been, with the 14-byte one.    *)
C7_TwoByteReplyOnlyFirst ==
    (Built /\ last.op = "control_in" /\ ClockRangeShape(last.req)) =>
        IF n_get_range = 1
        THEN last.xfer = Some(<<1, 0>>)
        ELSE IsSome(last.xfer) /\ Len(Unwrap(last.xfer)) = 14

NConfigured ==
    (IF IsSome(builder.input) THEN 1 ELSE 0) + (IF IsSome(builder.output) THEN 1 ELSE 0)

(* get_configuration_descriptors returned and none of its writes failed. *)
Emitted ==
    /\ Built
    /\ last.op = "get_configuration_descriptors"
    /\ ~writer.panicked
    /\ writer.dropped = 0

Where(kind) == {i \in DOMAIN writer.buf : writer.buf[i].kind = kind}

AsInterfaceBlocks ==
    {i \in DOMAIN writer.buf :
        /\ writer.buf[i].dtype = 4
        /\ writer.buf[i].data[2] = 1
        /\ writer.buf[i].data[5] = 2}

EndpointDescriptors == {i \in DOMAIN writer.buf : writer.buf[i].dtype = 5}

(* C8: for every combination of streams, the AC Header's total-length      *)
(* field (low byte first) is 9 + 8 + 29 * n and the stream holds n AS      *)
(* interface + endpoint blocks, n being the number of configured streams.  *)
C8_TotalLengthAndAsBlocks ==
    Emitted =>
        /\ Cardinality(Where("AcHeader")) = 1
        /\ \A i \in Where("AcHeader") :
               writer.buf[i].data[5] + 256 * writer.buf[i].data[6]
                   = 9 + 8 + 29 * NConfigured
        /\ Cardinality(AsInterfaceBlocks) = NConfigured
        /\ Cardinality(EndpointDescriptors) = NConfigured

(* Both streams were configured and the header carries 75. *)
C8_Witness ==
    /\ Emitted
    /\ NConfigured = 2
    /\ \E i \in Where("AcHeader") :
           writer.buf[i].data[5] = 75 /\ writer.buf[i].data[6] = 0
    /\ Cardinality(AsInterfaceBlocks) = 2

AsBlock(d) ==
    <<"AsInterface0." \o d, "AsInterface1." \o d, "AsGeneral." \o d,
      "FormatType." \o d, "Endpoint." \o d, "CsEndpoint." \o d>>

ExpectedOrder ==
    <<"IAD", "AcInterface", "AcHeader", "ClockSource">>
    \o (IF IsSome(builder.input) THEN <<"InputTerminal.in", "OutputTerminal.in">> ELSE <<>>)
    \o (IF IsSome(builder.output) THEN <<"InputTerminal.out", "OutputTerminal.out">> ELSE <<>>)
    \o (IF IsSome(builder.input) THEN AsBlock("in") ELSE <<>>)
    \o (IF IsSome(builder.output) THEN AsBlock("out") ELSE <<>>)

AcKinds ==
    {"AcInterface", "AcHeader", "ClockSource", "InputTerminal.in", "OutputTerminal.in",
     "InputTerminal.out", "OutputTerminal.out"}

AsKinds == {AsBlock(d)[i] : d \in {"in", "out"}, i \in 1..6}

(* C9: the descriptors come in the order IAD, AC interface, AC Header,     *)
(* Clock Source, input terminals, output terminals, input AS block, output *)
(* AS block, and no AC descriptor is ever written after an AS descriptor,  *)
(* also when the writer runs out of space on the way.                      *)
C9_DescriptorOrder ==
    (Built /\ last.op = "get_configuration_descriptors") =>
        /\ Emitted => [i \in DOMAIN writer.buf |-> writer.buf[i].kind] = ExpectedOrder
        /\ \A i, j \in DOMAIN writer.buf :
               (i < j /\ writer.buf[i].kind \in AsKinds) => writer.buf[j].kind \notin AcKinds

(* Both streams: the output stream's terminals were written before the     *)
(* input stream's AS block.                                                *)
C9_Witness ==
    /\ Emitted
    /\ NConfigured = 2
    /\ Len(writer.buf) = 20
    /\ writer.buf[8].kind = "OutputTerminal.out"
    /\ writer.buf[9].kind = "AsInterface0.in"

InIadRange(n, iad) == iad.data[1] <= n /\ n < iad.data[1] + iad.data[2]

(* C10: the interface numbers of the control interface and of every        *)
(* configured stream lie in the range the Interface Association Descriptor *)
(* names, whatever the allocator had handed out before build().            *)
C10_IadSpansAllInterfaces ==
    (Built /\ last.op = "get_configuration_descriptors") =>
        \A i \in Where("IAD") :
            /\ InIadRange(ac.control_interface, writer.buf[i])
            /\ IsSome(ac.input) => InIadRange(InputInterface, writer.buf[i])
            /\ IsSome(ac.output) => InIadRange(OutputInterface, writer.buf[i])


InKinds ==
    {"InputTerminal.in", "OutputTerminal.in"} \cup {AsBlock("in")[i] : i \in 1..6}

OutKinds ==
    {"InputTerminal.out", "OutputTerminal.out"} \cup {AsBlock("out")[i] : i \in 1..6}

IsTerminal(d) ==
    /\ d.dtype = 36
    /\ (d.data[1] = 2 /\ Len(d.data) = 15) \/ (d.data[1] = 3 /\ Len(d.data) = 10)

(* C11: descriptors of a direction are emitted only if that direction was *)
(* configured: without an output stream the descriptor set holds no       *)
(* descriptor written for the output direction, no terminal with an       *)
(* output-side ID (4, 5) and no OUT endpoint; symmetrically for the input *)
(* direction (IDs 2, 3, IN endpoint).  This holds for a partly written    *)
(* set too.                                                               *)
C11_OnlyConfiguredDirections ==
    (Built /\ last.op = "get_configuration_descriptors") =>
        /\ ~IsSome(builder.output) =>
               \A i \in DOMAIN writer.buf :
                   /\ writer.buf[i].kind \notin OutKinds
                   /\ IsTerminal(writer.buf[i]) => writer.buf[i].data[2] \in {2, 3}
                   /\ writer.buf[i].dtype = 5 => writer.buf[i].data[1] >= 128
        /\ ~IsSome(builder.input) =>
               \A i \in DOMAIN writer.buf :
                   /\ writer.buf[i].kind \notin InKinds
                   /\ IsTerminal(writer.buf[i]) => writer.buf[i].data[2] \in {4, 5}
                   /\ writer.buf[i].dtype = 5 => writer.buf[i].data[1] < 128

(* An input-only class wrote its whole set: 4 + 2 + 6 descriptors. *)
C11_Witness ==
    /\ Emitted
    /\ IsSome(builder.input) /\ ~IsSome(builder.output)
    /\ Len(writer.buf) = 12
    /\ \E i \in DOMAIN writer.buf : writer.buf[i].kind = "Endpoint.in"


WriteFailed == writer.panicked \/ writer.dropped > 0

(* C12: a writer that runs out of space at any write makes                *)
(* get_configuration_descriptors return an error result: the call does    *)
(* not panic, does not return success, and writes nothing after the write *)
(* that failed.                                                           *)
C12_WriteFailureIsReturned ==
    (last.op = "get_configuration_descriptors" /\ WriteFailed) =>
        /\ pc # "panicked"
        /\ ~last.ret.ok
        /\ writer.dropped > 0 =>
               writer.buf[Len(writer.buf)].kind = "AcInterface"

(* The AC header did not fit, the smaller clock-source descriptor after   *)
(* it did, and the call returned success.                                 *)
C12_Witness ==
    /\ last.op = "get_configuration_descriptors"
    /\ writer.dropped > 0 /\ ~writer.panicked
    /\ last.ret.ok
    /\ writer.buf[Len(writer.buf)].kind = "ClockSource"
    /\ writer.cap = 25


(* What the caller gets for an endpoint's answer: the byte count as it is, *)
(* the transport error as it is inside Error::UsbError.                    *)
PassedThrough(ret, result) ==
    IF result.ok THEN ret.ok /\ ret.val = result.val
    ELSE ~ret.ok /\ ret.err = "UsbError" /\ ret.inner = result.err

ForwardedOnce(op, stream) ==
    /\ Len(last.ep) = 1
    /\ last.ep[1].op = op
    /\ last.ep[1].address = Unwrap(stream).endpoint.address
    /\ PassedThrough(last.ret, last.ep[1].result)

(* C13: with the stream configured, read makes exactly one read call on   *)
(* the output stream's endpoint and write exactly one write call on the   *)
(* input stream's endpoint, never on the other direction's; the caller    *)
(* gets the endpoint's byte count, or its error unchanged inside          *)
(* Error::UsbError; and a read or write step changes no alt_setting and   *)
(* not the clock cursor.                                                  *)
C13_ReadWriteForwardOnce ==
    /\ [](Built =>
            /\ (last.op = "read" /\ IsSome(ac.output)) => ForwardedOnce("read", ac.output)
            /\ (last.op = "write" /\ IsSome(ac.input)) => ForwardedOnce("write", ac.input))
    /\ [][last'.op \in {"read", "write"} => ac' = ac]_vars

(* write() on a class with both streams got a transport error from the    *)
(* input endpoint, after the input stream's alt_setting had been set.     *)
C13_Witness ==
    /\ Built
    /\ IsSome(ac.input) /\ IsSome(ac.output)
    /\ Unwrap(ac.input).alt_setting = 1
    /\ last.op = "write"
    /\ Len(last.ep) = 1 /\ last.ep[1].address >= 128
    /\ last.ret.err = "UsbError" /\ last.ret.inner = "WouldBlock"


AllocationFailed == \E i \in DOMAIN allocator.log : ~allocator.log[i].ok

(* C14: when the allocator fails to allocate an endpoint during build,    *)
(* build returns an error result to its caller: it does not panic and     *)
(* returns no AudioClass.                                                 *)
C14_AllocationFailureIsReturned ==
    (last.op = "build" /\ AllocationFailed) =>
        /\ pc # "panicked"
        /\ ~last.ret.ok
        /\ ac = NoAudioClass

(* build() of a class with an input stream met an allocator with no       *)
(* endpoint left.                                                         *)
C14_Witness ==
    /\ last.op = "build"
    /\ IsSome(builder.input)
    /\ AllocationFailed
    /\ pc = "panicked"

(* The allocator calls build makes for one direction, from interface      *)
(* number n on.                                                           *)
StreamAllocations(cfg_opt, n, usage) ==
    IF IsSome(cfg_opt)
    THEN << [call |-> "interface", number |-> n, ep_type |-> NoEndpointType, size |-> 0],
            [call |-> "alloc", number |-> 0,
             ep_type |-> [kind |-> "Isochronous", synchronization |-> "Asynchronous",
                          usage |-> usage],
             size |-> packet_size(Unwrap(cfg_opt))] >>
    ELSE << >>

ExpectedAllocations(b, al) ==
    LET n == al.next_interface
        m == n + 1 + (IF IsSome(b.input) THEN 1 ELSE 0)
    IN  << [call |-> "interface", number |-> n, ep_type |-> NoEndpointType, size |-> 0] >>
        \o StreamAllocations(b.input, n + 1, "ImplicitFeedbackData")
        \o StreamAllocations(b.output, m, "Data")

(* A logged call is the expected one: endpoint numbers are the            *)
(* allocator's choice.                                                    *)
SameCall(l, e) ==
    /\ l.call = e.call /\ l.ep_type = e.ep_type /\ l.size = e.size
    /\ l.call = "interface" => l.number = e.number

(* C15: build makes its allocator calls once each and in a fixed order:   *)
(* the control interface, then for a configured input one interface and   *)
(* one isochronous asynchronous implicit-feedback-data endpoint of the    *)
(* input packet_size(), then for a configured output one interface and    *)
(* one isochronous asynchronous data endpoint of the output               *)
(* packet_size().  A build that ends early has made a prefix of these     *)
(* calls; one that succeeds has made all of them, taking 1 + n interface  *)
(* numbers and n endpoints for n configured streams.                      *)
C15_AllocationOrder ==
    [][(pc = "builder" /\ last'.op = "build") =>
          LET e == ExpectedAllocations(builder, allocator)
              l == allocator'.log
              n == NConfigured
          IN  /\ Len(l) <= Len(e)
              /\ \A i \in DOMAIN l : SameCall(l[i], e[i])
              /\ pc' = "built" =>
                     /\ Len(l) = Len(e) /\ Len(l) = 1 + 2 * n
                     /\ \A i \in DOMAIN l : l[i].ok
                     /\ allocator'.next_interface = allocator.next_interface + 1 + n
                     /\ allocator'.free_endpoints = allocator.free_endpoints - n
                     /\ ac'.control_interface = allocator.next_interface]_vars

(* A class with both streams was built: five allocator calls, the input   *)
(* endpoint before the output interface.                                  *)
C15_Witness ==
    /\ pc = "built" /\ last.op = "build"
    /\ IsSome(builder.input) /\ IsSome(builder.output)
    /\ Len(allocator.log) = 5
    /\ allocator.log[3].ep_type.usage = "ImplicitFeedbackData"
    /\ allocator.log[4].call = "interface"
    /\ allocator.log[5].ep_type.usage = "Data"


(* The request names a configured stream's interface in the low byte of   *)
(* its wIndex.                                                            *)
ToStreamInterface(a, req) ==
    \/ IsSome(a.input) /\ req.index % 256 = Unwrap(a.input).interface
    \/ IsSome(a.output) /\ req.index % 256 = Unwrap(a.output).interface

ClockEntityRequest(req) ==
    /\ req.request_type = "Class"
    /\ req.recipient = "Interface"
    /\ req.index \div 256 = 1
    /\ req.value \div 256 = 1
    /\ req.request \in {1, 2}

Recognized(op, a, req) ==
    IF op = "control_in"
    THEN (GetInterfaceShape(req) /\ ToStreamInterface(a, req)) \/ ClockEntityRequest(req)
    ELSE StandardInterfaceRequest(req, 11) /\ ToStreamInterface(a, req)

(* C16: a control transfer that is none of the recognized shapes          *)
(* (control-in: standard GET_INTERFACE of length 1 to a configured stream *)
(* interface, or a class request to the clock-source entity with the      *)
(* frequency selector and request code GET_CUR or GET_RANGE; control-out: *)
(* standard SET_INTERFACE to a configured stream interface) gets no reply *)
(* and no acknowledgement, and leaves both alt_settings and the clock     *)
(* cursor as they were.  The interface a request is addressed to is the   *)
(* low byte of its wIndex.                                                *)
C16_UnrecognizedLeftUnhandled ==
    [][(/\ pc = "built"
        /\ last'.op \in {"control_in", "control_out"}
        /\ ~Recognized(last'.op, ac, last'.req))
       => (last'.xfer = None /\ ac' = ac /\ pc' = "built")]_vars

(* A standard SET_INTERFACE naming the input interface, but not with      *)
(* recipient interface, got no acknowledgement and left the alt_setting   *)
(* set before it.                                                         *)
C16_Witness ==
    /\ pc = "built"
    /\ last.op = "control_out"
    /\ last.req.request_type = "Standard" /\ last.req.request = 11
    /\ last.req.recipient # "Interface"
    /\ IsSome(ac.input) /\ last.req.index % 256 = InputInterface
    /\ last.req.value # 2
    /\ last.xfer = None
    /\ Unwrap(ac.input).alt_setting = 2


SetInterfaceTo(call, interface) ==
    /\ call.op = "control_out"
    /\ StandardInterfaceRequest(call.req, 11)
    /\ call.req.index % 256 = interface

(* C17: the alt_setting of a stream changes only in a control_out step    *)
(* that handles a standard SET_INTERFACE whose wIndex low byte is that    *)
(* stream's own interface number, and such a step leaves the other        *)
(* stream's alt_setting alone; control_in, read, write, the accessors and *)
(* descriptor emission change no alt_setting.  The clock cursor changes   *)
(* only in a control_in step that handles a GET_RANGE to the clock-source *)
(* entity, not on GET_CUR, GET_INTERFACE or SET_INTERFACE.                *)
C17_OnlySetInterfaceAndGetRangeWrite ==
    [][pc = "built" =>
         /\ (IsSome(ac.input) /\ Unwrap(ac'.input).alt_setting # Unwrap(ac.input).alt_setting)
                => SetInterfaceTo(last', InputInterface)
         /\ (IsSome(ac.output) /\ Unwrap(ac'.output).alt_setting # Unwrap(ac.output).alt_setting)
                => SetInterfaceTo(last', OutputInterface)
         /\ (IsSome(ac.input) /\ IsSome(ac.output) /\ SetInterfaceTo(last', InputInterface))
                => Unwrap(ac'.output).alt_setting = Unwrap(ac.output).alt_setting
         /\ (IsSome(ac.input) /\ IsSome(ac.output) /\ SetInterfaceTo(last', OutputInterface))
                => Unwrap(ac'.input).alt_setting = Unwrap(ac.input).alt_setting
         /\ ac'.clock_index # ac.clock_index
                => /\ last'.op = "control_in"
                   /\ ClockEntityRequest(last'.req)
                   /\ last'.req.request = 2
         /\ IsSome(ac'.input) = IsSome(ac.input)
         /\ IsSome(ac'.output) = IsSome(ac.output)]_vars

(* A GET_CUR was answered after a GET_RANGE had moved the cursor and      *)
(* SET_INTERFACEs had given the two streams different alt_settings: all   *)
(* three values are still there.                                          *)
C17_Witness ==
    /\ pc = "built"
    /\ IsSome(ac.input) /\ IsSome(ac.output)
    /\ last.op = "control_in"
    /\ ClockEntityRequest(last.req) /\ last.req.request = 1
    /\ last.xfer = Some(CUR_FREQUENCY)
    /\ ac.clock_index = 1
    /\ Unwrap(ac.input).alt_setting = 1
    /\ Unwrap(ac.output).alt_setting = 2


(* bmAttributes of an endpoint descriptor: bits 1..0 transfer type,       *)
(* bits 3..2 synchronization, bits 5..4 usage.                            *)
AttributesOf(ep_type) ==
    (IF ep_type.kind = "Isochronous" THEN 1 ELSE 0)
    + 4 * (IF ep_type.synchronization = "Asynchronous" THEN 1 ELSE 0)
    + 16 * (IF ep_type.usage = "ImplicitFeedbackData" THEN 2 ELSE 0)

EndpointAgrees(d, stream, usage) ==
    /\ d.data[1] = stream.endpoint.address
    /\ d.data[2] = AttributesOf(stream.endpoint.ep_type)
    /\ stream.endpoint.ep_type = [kind |-> "Isochronous",
                                  synchronization |-> "Asynchronous", usage |-> usage]
    /\ stream.endpoint.max_packet_size = packet_size(stream.stream_config)

BigEndianSize(d) == d.data[3] * 256 + d.data[4]

LittleEndianSize(d) == d.data[3] + 256 * d.data[4]

SizeField(d, low_byte_first) ==
    IF low_byte_first THEN LittleEndianSize(d) ELSE BigEndianSize(d)

EndpointsAgree(low_byte_first) ==
    (Built /\ last.op = "get_configuration_descriptors") =>
        \A i \in DOMAIN writer.buf :
            LET d == writer.buf[i]
            IN  /\ d.kind = "Endpoint.in" =>
                       /\ EndpointAgrees(d, Unwrap(ac.input), "ImplicitFeedbackData")
                       /\ SizeField(d, low_byte_first)
                              = Unwrap(ac.input).endpoint.max_packet_size
                /\ d.kind = "Endpoint.out" =>
                       /\ EndpointAgrees(d, Unwrap(ac.output), "Data")
                       /\ SizeField(d, low_byte_first)
                              = Unwrap(ac.output).endpoint.max_packet_size

(* C18 as stated: the endpoint descriptor of each configured stream       *)
(* carries the address of the endpoint allocated at build, attributes     *)
(* that encode isochronous, asynchronous and the usage it was allocated   *)
(* with (implicit feedback for input, data for output), and a two-byte    *)
(* maximum-packet-size field that, read high byte first, is the           *)
(* packet_size() the endpoint was sized with.                             *)
C18_EndpointFieldBigEndian == EndpointsAgree(FALSE)

(* C18, amended: the same, with the maximum-packet-size field read low    *)
(* byte first: the descriptor holds the two big-endian bytes of           *)
(* packet_size() swapped.                                                 *)
C18_EndpointFieldLowByteFirst == EndpointsAgree(TRUE)

(* Both endpoint descriptors were written, the input one with packet size *)
(* 196 in its first size byte.                                            *)
C18_Witness ==
    /\ Emitted
    /\ IsSome(ac.input) /\ IsSome(ac.output)
    /\ \E i \in DOMAIN writer.buf :
           /\ writer.buf[i].kind = "Endpoint.in"
           /\ writer.buf[i].data[2] = 37
           /\ writer.buf[i].data[3] = 196 /\ writer.buf[i].data[4] = 0
    /\ \E i \in DOMAIN writer.buf :
           /\ writer.buf[i].kind = "Endpoint.out"
           /\ writer.buf[i].data[2] = 5


(* The bytes the descriptors of the given kinds take in the buffer, each  *)
(* with its bLength and bDescriptorType bytes.                            *)
RECURSIVE DescriptorBytes(_, _)
DescriptorBytes(buf, kinds) ==
    IF buf = << >> THEN 0
    ELSE (IF Head(buf).kind \in kinds THEN 2 + Len(Head(buf).data) ELSE 0)
         + DescriptorBytes(Tail(buf), kinds)

InputStreamTerminals == {"InputTerminal.in", "OutputTerminal.in"}

OutputStreamTerminals == {"InputTerminal.out", "OutputTerminal.out"}

ClassSpecificAc ==
    {"AcHeader", "ClockSource"} \cup InputStreamTerminals \cup OutputStreamTerminals

(* C19: for every combination of streams, the total length in the AC      *)
(* header (low byte first) is the number of bytes of the class-specific   *)
(* audio control descriptors written: the header, the clock source and    *)
(* every input and output terminal, each with its two prefix bytes; all   *)
(* of them are CS_INTERFACE descriptors, and the terminals of each        *)
(* configured stream take 29 of these bytes.                              *)
C19_TotalLengthIsBytesWritten ==
    Emitted =>
        /\ \A i \in Where("AcHeader") :
               writer.buf[i].data[5] + 256 * writer.buf[i].data[6]
                   = DescriptorBytes(writer.buf, ClassSpecificAc)
        /\ \A i \in DOMAIN writer.buf :
               writer.buf[i].kind \in ClassSpecificAc <=>
                   (writer.buf[i].dtype = 36 /\ i < 5 + 2 * NConfigured)
        /\ DescriptorBytes(writer.buf, InputStreamTerminals)
               = IF IsSome(ac.input) THEN 29 ELSE 0
        /\ DescriptorBytes(writer.buf, OutputStreamTerminals)
               = IF IsSome(ac.output) THEN 29 ELSE 0

(* An output-only class wrote 46 bytes of class-specific audio control    *)
(* descriptors and its header says so.                                    *)
C19_Witness ==
    /\ Emitted
    /\ ~IsSome(ac.input) /\ IsSome(ac.output)
    /\ DescriptorBytes(writer.buf, ClassSpecificAc) = 46
    /\ \E i \in Where("AcHeader") : writer.buf[i].data[5] = 46


ClassRequestToClockEntity(req) ==
    /\ req.request_type = "Class"
    /\ req.recipient = "Interface"
    /\ req.index \div 256 = 1

(* C20: control_in answers a class request to the clock-source entity and *)
(* moves the clock cursor only if the low byte of wIndex is the control   *)
(* interface allocated at build: a class request with entity ID 1 in the  *)
(* high byte of wIndex and another interface number in the low byte gets  *)
(* no reply and leaves the cursor where it was.                           *)
C20_ClockRequestsOnlyOnControlInterface ==
    [][(/\ pc = "built"
        /\ last'.op = "control_in"
        /\ ClassRequestToClockEntity(last'.req)
        /\ last'.req.index % 256 # ac.control_interface)
       => (last'.xfer = None /\ ac'.clock_index = ac.clock_index)]_vars

(* A GET_RANGE naming interface 1 was answered by a function whose        *)
(* control interface is 0, and moved the cursor.                          *)
C20_Witness ==
    /\ pc = "built"
    /\ ac.control_interface = 0
    /\ last.op = "control_in"
    /\ ClassRequestToClockEntity(last.req)
    /\ last.req.request = 2
    /\ last.req.index = 257
    /\ last.xfer = Some(RANGE_COUNT_ONLY)
    /\ ac.clock_index = 1

====
